---- MODULE Spec2Model ----
(***************************************************************************)
(* Model of package conntest (src/conn/conntest/conntest.go): the fakes     *)
(* RecordRaw (the spec's RawRecorder), Record (the spec's Recorder) and      *)
(* Playback (the spec's Player) of the conn.Conn interface, called by       *)
(* concurrent goroutines.                                                   *)
(*                                                                          *)
(* A []byte is modelled as a sequence of bytes; the nil slice is the empty  *)
(* sequence (len, copy and bytes.Equal treat both alike).  A slice stored   *)
(* in a Record's log is a slice reference: either a backing array of its    *)
(* own (what make() returns) or the backing array of a caller's buffer.     *)
(***************************************************************************)
EXTENDS Integers, Sequences, FiniteSets

\* ------------------------------------------------------------------ bounds
NThreads == 2      \* goroutines calling the fakes
MaxLen   == 1      \* longest buffer a caller passes
MaxCalls == 2      \* calls one goroutine issues in a row
MaxOps   == 2      \* longest log a Playback is constructed with

Threads == 1..NThreads
\* The code only copies and compares bytes: two byte values tell them apart.
Bytes   == {0, 1}

RECURSIVE SeqsOfLen(_)
SeqsOfLen(n) ==
    IF n = 0 THEN {<<>>}
    ELSE {Append(s, b) : s \in SeqsOfLen(n - 1), b \in Bytes}

\* The buffers a caller can pass.
BufSet == UNION {SeqsOfLen(n) : n \in 0..MaxLen}

\* make([]byte, n): n zero bytes.
Make(n) == [i \in 1..n |-> 0]

\* The read buffers a caller passes: nil, or make([]byte, n).
ReadBufSet == {Make(n) : n \in 0..MaxLen}

\* The goroutine of a test that calls from one goroutine only.
Main == CHOOSE t \in Threads : \A u \in Threads : t <= u

\* ------------------------------------------------------------------ state
VARIABLES
    rConn,    \* Record.Conn != nil
    rLock,    \* Record.Lock: 0 when free, else the goroutine holding it
    rOps,     \* Record.Ops: sequence of IO, each field a slice reference
    connLog,  \* the transactions the underlying connection executed, in order
    pLock,    \* Playback.Lock
    pOps,     \* Playback.Ops: sequence of IO, each field a byte sequence
    pc,       \* per goroutine: the line it is at
    via,      \* per goroutine: the public method the caller invoked
    wbuf,     \* per goroutine: the caller's write buffer (w / d)
    rbuf,     \* per goroutine: the caller's read buffer (read / r)
    ret,      \* per goroutine: the error the last Tx returned
    cnt,      \* per goroutine: the count the last Write returned
    cerr,     \* per goroutine: the error the underlying connection returned
    tmp,      \* per goroutine: the value of append(r.Ops, io) before the store
    pre,      \* per goroutine: the log and read buffer when the call took the lock
    calls,    \* calls a test has issued so far, where it counts them
    script,   \* round trip: the transactions T1..Tn the test issues
    phase,    \* the fake a test drives; round trip: "record", then "play"
    seed,     \* the log a concurrent test constructed the Playback with
    rawLock,  \* RecordRaw.Lock
    sinkLog   \* RecordRaw.W: the Write calls the sink received, with its answers

vars == <<rConn, rLock, rOps, connLog, pLock, pOps, pc, via, wbuf, rbuf, ret,
          cnt, cerr, tmp, pre, calls, script, phase, seed, rawLock, sinkLog>>

recVars  == <<rConn, rLock, rOps, connLog>>
playVars == <<pLock, pOps>>
testVars == <<script, phase, seed>>
rawVars  == <<rawLock, sinkLog>>

\* ------------------------------------------------------------------ errors
NoCall          == "none"                                     \* nothing returned yet
Nil             == "nil"
ErrNoBus        == "read unsupported when no bus is connected"
ErrUnexpectedTx == "unexpected Tx()"
ErrWrite        == "unexpected write"
ErrReadLen      == "unexpected read buffer length"
ErrNotImpl      == "not implemented"
\* What the underlying connection's Tx can fail with.
ConnErrs        == {"conn: i/o error", "conn: timeout"}
\* What the sink's Write can fail with.
SinkErrs        == {"sink: short write", "sink: closed"}

\* ------------------------------------------------------------------ slices
\* A copy that moves no byte.
CopyNothing(dst, src) == dst
\* copy(dst, src): the first min(len(dst), len(src)) bytes of dst replaced.
Copy(dst, src) ==
    [i \in 1..Len(dst) |-> IF i <= Len(src) THEN src[i] ELSE dst[i]]

\* bytes.Equal(a, b)
BytesEqual(a, b) ==
    /\ Len(a) = Len(b)
    /\ \A i \in 1..Len(a) : a[i] = b[i]

\* A slice with a backing array of its own, holding bytes b.
Own(b) == [own |-> TRUE, bytes |-> b]
\* A slice sharing the backing array of goroutine t's buffer f ("w" or "r").
Alias(t, f) == [own |-> FALSE, of |-> t, field |-> f]
\* The bytes a slice reference holds now.
Deref(s) ==
    IF s.own THEN s.bytes
    ELSE IF s.field = "w" THEN wbuf[s.of] ELSE rbuf[s.of]
\* The bytes it holds after the step.
DerefNext(s) ==
    IF s.own THEN s.bytes
    ELSE IF s.field = "w" THEN wbuf'[s.of] ELSE rbuf'[s.of]

\* The log of a Record as byte values, now and after the step.
LogVal(ops) ==
    [i \in 1..Len(ops) |-> [Write |-> Deref(ops[i].Write), Read |-> Deref(ops[i].Read)]]
LogValNext(ops) ==
    [i \in 1..Len(ops) |->
        [Write |-> DerefNext(ops[i].Write), Read |-> DerefNext(ops[i].Read)]]

\* What a call remembers of the moment it took the lock.
Snapshot(ops, r) == [ops |-> ops, r |-> r]
NoSnapshot == Snapshot(<<>>, <<>>)

\* ------------------------------------------------------------------ Record
\* An IO that keeps the caller's slices: IO{Write: w, Read: read}.
NewIOAliased(t) == [Write |-> Alias(t, "w"), Read |-> Alias(t, "r")]
\* An IO whose Read is copied from read as it was before r.Conn.Tx.
NewIOBeforeTx(t) ==
    [Write |-> Own(Copy(Make(Len(wbuf[t])), wbuf[t])),
     Read  |-> Own(Copy(Make(Len(pre[t].r)), pre[t].r))]
\* The IO that Tx builds from the buffers of caller t.
NewIO(t) ==
    [Write |-> Own(Copy(Make(Len(wbuf[t])), wbuf[t])),
     Read  |-> Own(IF Len(rbuf[t]) # 0
                   THEN Copy(Make(Len(rbuf[t])), rbuf[t])
                   ELSE Copy(<<>>, rbuf[t]))]

\* Record.Tx(w, read) is called by goroutine t.
RecTxCall(t, w, r) ==
    /\ pc[t] = "idle"
    /\ wbuf' = [wbuf EXCEPT ![t] = w]
    /\ rbuf' = [rbuf EXCEPT ![t] = r]
    /\ via' = [via EXCEPT ![t] = "Record.Tx"]
    /\ ret' = [ret EXCEPT ![t] = NoCall]
    /\ cnt' = [cnt EXCEPT ![t] = 0]
    /\ cerr' = [cerr EXCEPT ![t] = NoCall]
    /\ pc' = [pc EXCEPT ![t] = "rtx_lock"]
    /\ UNCHANGED <<recVars, playVars, tmp, pre, testVars, rawVars>>

\* A Write that takes the lock itself before it calls Tx.
RecWriteCallLocked(t, d) ==
    /\ pc[t] = "idle"
    /\ rLock = 0
    /\ rLock' = t
    /\ wbuf' = [wbuf EXCEPT ![t] = d]
    /\ rbuf' = [rbuf EXCEPT ![t] = <<>>]
    /\ via' = [via EXCEPT ![t] = "Record.Write"]
    /\ ret' = [ret EXCEPT ![t] = NoCall]
    /\ cnt' = [cnt EXCEPT ![t] = 0]
    /\ cerr' = [cerr EXCEPT ![t] = NoCall]
    /\ pc' = [pc EXCEPT ![t] = "rtx_lock"]
    /\ UNCHANGED <<rConn, rOps, connLog, playVars, tmp, pre, testVars, rawVars>>

\* Record.Write(d): r.Tx(d, nil)
RecWriteCall(t, d) ==
    /\ pc[t] = "idle"
    /\ wbuf' = [wbuf EXCEPT ![t] = d]
    /\ rbuf' = [rbuf EXCEPT ![t] = <<>>]
    /\ via' = [via EXCEPT ![t] = "Record.Write"]
    /\ ret' = [ret EXCEPT ![t] = NoCall]
    /\ cnt' = [cnt EXCEPT ![t] = 0]
    /\ cerr' = [cerr EXCEPT ![t] = NoCall]
    /\ pc' = [pc EXCEPT ![t] = "rtx_lock"]
    /\ UNCHANGED <<recVars, playVars, tmp, pre, testVars, rawVars>>

\* A lock that never makes a caller wait.
RecLockNoWait(t) == TRUE
\* r.Lock.Lock() returns once no goroutine holds the lock.
RecLockFree(t) == rLock = 0

RecTxLock(t) ==
    /\ pc[t] = "rtx_lock"
    /\ RecLockFree(t)
    /\ rLock' = t
    /\ pre' = [pre EXCEPT ![t] = Snapshot(LogVal(rOps), rbuf[t])]
    /\ pc' = [pc EXCEPT ![t] = "rtx_check"]
    /\ UNCHANGED <<rConn, rOps, connLog, playVars, via, wbuf, rbuf, ret, cnt, cerr,
                   tmp, calls, testVars, rawVars>>

\* The underlying connection's Tx(w, read): it fails with one of its errors,
\* or executes the transaction and fills read with the device's response.
ConnTx(t, e, resp) ==
    \/ /\ e \in ConnErrs
       /\ resp = rbuf[t]
       /\ UNCHANGED connLog
    \/ /\ e = Nil
       /\ resp \in SeqsOfLen(Len(rbuf[t]))
       /\ connLog' = Append(connLog, [Write |-> wbuf[t], Read |-> resp])

\* The same, without the return of the failed delegation's error.
RecTxCheckFallsThrough(t) ==
    /\ pc[t] = "rtx_check"
    /\ IF ~rConn
       THEN /\ IF Len(rbuf[t]) # 0
               THEN /\ ret' = [ret EXCEPT ![t] = ErrNoBus]
                    /\ pc' = [pc EXCEPT ![t] = "rtx_unlock"]
               ELSE /\ pc' = [pc EXCEPT ![t] = "rtx_build"]
                    /\ UNCHANGED ret
            /\ UNCHANGED <<rbuf, connLog, cerr>>
       ELSE \E e \in ConnErrs \cup {Nil}, resp \in BufSet :
               /\ ConnTx(t, e, resp)
               /\ rbuf' = [rbuf EXCEPT ![t] = resp]
               /\ cerr' = [cerr EXCEPT ![t] = e]
               /\ pc' = [pc EXCEPT ![t] = "rtx_build"]
               /\ UNCHANGED ret
    /\ UNCHANGED <<rConn, rLock, rOps, playVars, via, wbuf, cnt, tmp, pre, calls,
                   testVars, rawVars>>

\* The same, without the check of len(read) when r.Conn is nil.
RecTxCheckAllowsRead(t) ==
    /\ pc[t] = "rtx_check"
    /\ IF ~rConn
       THEN /\ pc' = [pc EXCEPT ![t] = "rtx_build"]
            /\ UNCHANGED <<ret, rbuf, connLog, cerr>>
       ELSE \E e \in ConnErrs \cup {Nil}, resp \in BufSet :
               /\ ConnTx(t, e, resp)
               /\ rbuf' = [rbuf EXCEPT ![t] = resp]
               /\ cerr' = [cerr EXCEPT ![t] = e]
               /\ IF e # Nil
                  THEN /\ ret' = [ret EXCEPT ![t] = e]
                       /\ pc' = [pc EXCEPT ![t] = "rtx_unlock"]
                  ELSE /\ pc' = [pc EXCEPT ![t] = "rtx_build"]
                       /\ UNCHANGED ret
    /\ UNCHANGED <<rConn, rLock, rOps, playVars, via, wbuf, cnt, tmp, pre, calls,
                   testVars, rawVars>>

\* if r.Conn == nil { ... } else { ... }
RecTxCheck(t) ==
    /\ pc[t] = "rtx_check"
    /\ IF ~rConn
       THEN /\ IF Len(rbuf[t]) # 0
               THEN /\ ret' = [ret EXCEPT ![t] = ErrNoBus]
                    /\ pc' = [pc EXCEPT ![t] = "rtx_unlock"]
               ELSE /\ pc' = [pc EXCEPT ![t] = "rtx_build"]
                    /\ UNCHANGED ret
            /\ UNCHANGED <<rbuf, connLog, cerr>>
       ELSE \E e \in ConnErrs \cup {Nil}, resp \in BufSet :
               /\ ConnTx(t, e, resp)
               /\ rbuf' = [rbuf EXCEPT ![t] = resp]
               /\ cerr' = [cerr EXCEPT ![t] = e]
               /\ IF e # Nil
                  THEN /\ ret' = [ret EXCEPT ![t] = e]
                       /\ pc' = [pc EXCEPT ![t] = "rtx_unlock"]
                  ELSE /\ pc' = [pc EXCEPT ![t] = "rtx_build"]
                       /\ UNCHANGED ret
    /\ UNCHANGED <<rConn, rLock, rOps, playVars, via, wbuf, cnt, tmp, pre, calls,
                   testVars, rawVars>>

\* The same, appending nothing for a transaction without bytes.
RecTxBuildSkipsEmpty(t) ==
    /\ pc[t] = "rtx_build"
    /\ tmp' = [tmp EXCEPT ![t] = IF Len(wbuf[t]) = 0 /\ Len(rbuf[t]) = 0
                                 THEN rOps
                                 ELSE Append(rOps, NewIO(t))]
    /\ pc' = [pc EXCEPT ![t] = "rtx_store"]
    /\ UNCHANGED <<recVars, playVars, via, wbuf, rbuf, ret, cnt, cerr, pre, calls,
                   testVars, rawVars>>

\* io := IO{...}; copy; copy; and the evaluation of append(r.Ops, io)
RecTxBuild(t) ==
    /\ pc[t] = "rtx_build"
    /\ tmp' = [tmp EXCEPT ![t] = Append(rOps, NewIO(t))]
    /\ pc' = [pc EXCEPT ![t] = "rtx_store"]
    /\ UNCHANGED <<recVars, playVars, via, wbuf, rbuf, ret, cnt, cerr, pre, calls,
                   testVars, rawVars>>

\* r.Ops = ...; return nil
RecTxStore(t) ==
    /\ pc[t] = "rtx_store"
    /\ rOps' = tmp[t]
    /\ tmp' = [tmp EXCEPT ![t] = <<>>]
    /\ ret' = [ret EXCEPT ![t] = Nil]
    /\ pc' = [pc EXCEPT ![t] = "rtx_unlock"]
    /\ UNCHANGED <<rConn, rLock, connLog, playVars, via, wbuf, rbuf, cnt, cerr, pre,
                   calls, testVars, rawVars>>

\* defer r.Lock.Unlock(), and the return to the caller of Tx
RecTxUnlock(t) ==
    /\ pc[t] = "rtx_unlock"
    /\ rLock' = 0
    /\ pc' = [pc EXCEPT ![t] = IF via[t] = "Record.Write" THEN "rw_ret" ELSE "idle"]
    /\ UNCHANGED <<rConn, rOps, connLog, playVars, via, wbuf, rbuf, ret, cnt, cerr,
                   tmp, pre, calls, testVars, rawVars>>

\* A Write that returns len(d) whatever Tx returned.
WriteCountAlwaysLen(err, d) == Len(d)
\* Write: if err != nil { return 0, err }; return len(d), nil
WriteCount(err, d) == IF err # Nil THEN 0 ELSE Len(d)

RecWriteRet(t) ==
    /\ pc[t] = "rw_ret"
    /\ cnt' = [cnt EXCEPT ![t] = WriteCount(ret[t], wbuf[t])]
    /\ pc' = [pc EXCEPT ![t] = "idle"]
    /\ UNCHANGED <<recVars, playVars, via, wbuf, rbuf, ret, cerr, tmp, pre, calls,
                   testVars, rawVars>>

\* ---------------------------------------------------------------- Playback
\* The checks with the read length compared before the write bytes.
PlayCheckReadLenFirst(ops, w, r) ==
    IF Len(ops) = 0 THEN ErrUnexpectedTx
    ELSE IF Len(ops[1].Read) # Len(r) THEN ErrReadLen
    ELSE IF ~BytesEqual(ops[1].Write, w) THEN ErrWrite
    ELSE Nil
\* The checks with an empty log let through.
PlayCheckEmptyPasses(ops, w, r) ==
    IF Len(ops) = 0 THEN Nil
    ELSE IF ~BytesEqual(ops[1].Write, w) THEN ErrWrite
    ELSE IF Len(ops[1].Read) # Len(r) THEN ErrReadLen
    ELSE Nil
\* The checks of Playback.Tx, in the order the code makes them.
PlayCheck(ops, w, r) ==
    IF Len(ops) = 0 THEN ErrUnexpectedTx
    ELSE IF ~BytesEqual(ops[1].Write, w) THEN ErrWrite
    ELSE IF Len(ops[1].Read) # Len(r) THEN ErrReadLen
    ELSE Nil

\* p.Ops[:len(p.Ops)-1]
PopLast(ops) == SubSeq(ops, 1, Len(ops) - 1)
\* p.Ops[1:]
Pop(ops) == SubSeq(ops, 2, Len(ops))

\* Playback.Tx(w, r) is called by goroutine t.
PlayTxCall(t, w, r) ==
    /\ pc[t] = "idle"
    /\ wbuf' = [wbuf EXCEPT ![t] = w]
    /\ rbuf' = [rbuf EXCEPT ![t] = r]
    /\ via' = [via EXCEPT ![t] = "Playback.Tx"]
    /\ ret' = [ret EXCEPT ![t] = NoCall]
    /\ cnt' = [cnt EXCEPT ![t] = 0]
    /\ pc' = [pc EXCEPT ![t] = "ptx_lock"]
    /\ UNCHANGED <<recVars, playVars, cerr, tmp, pre, testVars, rawVars>>

\* Playback.Write(d): p.Tx(d, nil)
PlayWriteCall(t, d) ==
    /\ pc[t] = "idle"
    /\ wbuf' = [wbuf EXCEPT ![t] = d]
    /\ rbuf' = [rbuf EXCEPT ![t] = <<>>]
    /\ via' = [via EXCEPT ![t] = "Playback.Write"]
    /\ ret' = [ret EXCEPT ![t] = NoCall]
    /\ cnt' = [cnt EXCEPT ![t] = 0]
    /\ pc' = [pc EXCEPT ![t] = "ptx_lock"]
    /\ UNCHANGED <<recVars, playVars, cerr, tmp, pre, testVars, rawVars>>

\* A lock that never makes a caller wait.
PlayLockNoWait(t) == TRUE
\* p.Lock.Lock() returns once no goroutine holds the lock.
PlayLockFree(t) == pLock = 0

PlayTxLock(t) ==
    /\ pc[t] = "ptx_lock"
    /\ PlayLockFree(t)
    /\ pLock' = t
    /\ pre' = [pre EXCEPT ![t] = Snapshot(pOps, rbuf[t])]
    /\ pc' = [pc EXCEPT ![t] = "ptx_check"]
    /\ UNCHANGED <<recVars, pOps, via, wbuf, rbuf, ret, cnt, cerr, tmp, calls,
                   testVars, rawVars>>

\* The same, with the head record popped before it is compared.
PlayTxCheckConsumes(t) ==
    /\ pc[t] = "ptx_check"
    /\ LET e == PlayCheck(pOps, wbuf[t], rbuf[t]) IN
       IF e # Nil
       THEN /\ ret' = [ret EXCEPT ![t] = e]
            /\ pOps' = Pop(pOps)
            /\ pc' = [pc EXCEPT ![t] = "ptx_unlock"]
       ELSE /\ pc' = [pc EXCEPT ![t] = "ptx_copy"]
            /\ UNCHANGED <<ret, pOps>>
    /\ UNCHANGED <<recVars, pLock, via, wbuf, rbuf, cnt, cerr, tmp, pre, calls,
                   testVars, rawVars>>

\* the three if statements of Playback.Tx
PlayTxCheck(t) ==
    /\ pc[t] = "ptx_check"
    /\ LET e == PlayCheck(pOps, wbuf[t], rbuf[t]) IN
       IF e # Nil
       THEN /\ ret' = [ret EXCEPT ![t] = e]
            /\ pc' = [pc EXCEPT ![t] = "ptx_unlock"]
       ELSE /\ pc' = [pc EXCEPT ![t] = "ptx_copy"]
            /\ UNCHANGED ret
    /\ UNCHANGED <<recVars, playVars, via, wbuf, rbuf, cnt, cerr, tmp, pre, calls,
                   testVars, rawVars>>

\* copy(r, p.Ops[0].Read); p.Ops = p.Ops[1:]; return nil
PlayTxCopy(t) ==
    /\ pc[t] = "ptx_copy"
    /\ rbuf' = [rbuf EXCEPT ![t] = Copy(rbuf[t], pOps[1].Read)]
    /\ pOps' = Pop(pOps)
    /\ ret' = [ret EXCEPT ![t] = Nil]
    /\ pc' = [pc EXCEPT ![t] = "ptx_unlock"]
    /\ UNCHANGED <<recVars, pLock, via, wbuf, cnt, cerr, tmp, pre, calls, testVars, rawVars>>

\* defer p.Lock.Unlock(), and the return to the caller of Tx
PlayTxUnlock(t) ==
    /\ pc[t] = "ptx_unlock"
    /\ pLock' = 0
    /\ pc' = [pc EXCEPT ![t] = IF via[t] = "Playback.Write" THEN "pw_ret" ELSE "idle"]
    /\ UNCHANGED <<recVars, pOps, via, wbuf, rbuf, ret, cnt, cerr, tmp, pre, calls,
                   testVars, rawVars>>

\* Playback.Write: if err != nil { return 0, err }; return len(d), nil
PlayWriteRet(t) ==
    /\ pc[t] = "pw_ret"
    /\ cnt' = [cnt EXCEPT ![t] = WriteCount(ret[t], wbuf[t])]
    /\ pc' = [pc EXCEPT ![t] = "idle"]
    /\ UNCHANGED <<recVars, playVars, via, wbuf, rbuf, ret, cerr, tmp, pre, calls,
                   testVars, rawVars>>

\* --------------------------------------------------------------- RecordRaw
\* r.W.Write(b): the sink takes all of b, or fails after the first n bytes.
SinkResults(b) ==
    {[n |-> Len(b), err |-> Nil]} \cup [n : 0..Len(b), err : SinkErrs]

\* RecordRaw.Write(b) is called by goroutine t.
RawWriteCall(t, b) ==
    /\ pc[t] = "idle"
    /\ wbuf' = [wbuf EXCEPT ![t] = b]
    /\ rbuf' = [rbuf EXCEPT ![t] = <<>>]
    /\ via' = [via EXCEPT ![t] = "RecordRaw.Write"]
    /\ ret' = [ret EXCEPT ![t] = NoCall]
    /\ cnt' = [cnt EXCEPT ![t] = 0]
    /\ pc' = [pc EXCEPT ![t] = "raw_lock"]
    /\ UNCHANGED <<recVars, playVars, cerr, tmp, pre, testVars, rawVars>>

\* RecordRaw.Tx(w, read) is called by goroutine t.
RawTxCall(t, w, r) ==
    /\ pc[t] = "idle"
    /\ wbuf' = [wbuf EXCEPT ![t] = w]
    /\ rbuf' = [rbuf EXCEPT ![t] = r]
    /\ via' = [via EXCEPT ![t] = "RecordRaw.Tx"]
    /\ ret' = [ret EXCEPT ![t] = NoCall]
    /\ cnt' = [cnt EXCEPT ![t] = 0]
    /\ pc' = [pc EXCEPT ![t] = "raw_tx"]
    /\ UNCHANGED <<recVars, playVars, cerr, tmp, pre, testVars, rawVars>>

\* The same, without the check of len(read).
RawTxCheckAllowsRead(t) ==
    /\ pc[t] = "raw_tx"
    /\ pre' = [pre EXCEPT ![t] = Snapshot(sinkLog, rbuf[t])]
    /\ pc' = [pc EXCEPT ![t] = "raw_lock"]
    /\ UNCHANGED <<recVars, playVars, via, wbuf, rbuf, ret, cnt, cerr, tmp, calls,
                   testVars, rawVars>>

\* if len(read) != 0 { return errors.New("not implemented") }; else r.Write(w)
RawTxCheck(t) ==
    /\ pc[t] = "raw_tx"
    /\ pre' = [pre EXCEPT ![t] = Snapshot(sinkLog, rbuf[t])]
    /\ IF Len(rbuf[t]) # 0
       THEN /\ ret' = [ret EXCEPT ![t] = ErrNotImpl]
            /\ pc' = [pc EXCEPT ![t] = "idle"]
       ELSE /\ pc' = [pc EXCEPT ![t] = "raw_lock"]
            /\ UNCHANGED ret
    /\ UNCHANGED <<recVars, playVars, via, wbuf, rbuf, cnt, cerr, tmp, calls,
                   testVars, rawVars>>

\* r.Lock.Lock() returns once no goroutine holds the lock.
RawLockFree(t) == rawLock = 0

RawLock(t) ==
    /\ pc[t] = "raw_lock"
    /\ RawLockFree(t)
    /\ rawLock' = t
    /\ pre' = [pre EXCEPT ![t] = Snapshot(sinkLog, rbuf[t])]
    /\ pc' = [pc EXCEPT ![t] = "raw_write"]
    /\ UNCHANGED <<recVars, playVars, via, wbuf, rbuf, ret, cnt, cerr, tmp, calls,
                   testVars, sinkLog>>

\* The same, returning len(b) and not the sink's count.
RawWriteReportsLen(t) ==
    /\ pc[t] = "raw_write"
    /\ \E res \in SinkResults(wbuf[t]) :
          /\ sinkLog' = Append(sinkLog, [b |-> wbuf[t], n |-> res.n, err |-> res.err])
          /\ cnt' = [cnt EXCEPT ![t] = Len(wbuf[t])]
          /\ ret' = [ret EXCEPT ![t] = res.err]
    /\ pc' = [pc EXCEPT ![t] = "raw_unlock"]
    /\ UNCHANGED <<recVars, playVars, via, wbuf, rbuf, cerr, tmp, pre, calls,
                   testVars, rawLock>>

\* return r.W.Write(b)
RawWrite(t) ==
    /\ pc[t] = "raw_write"
    /\ \E res \in SinkResults(wbuf[t]) :
          /\ sinkLog' = Append(sinkLog, [b |-> wbuf[t], n |-> res.n, err |-> res.err])
          /\ cnt' = [cnt EXCEPT ![t] = res.n]
          /\ ret' = [ret EXCEPT ![t] = res.err]
    /\ pc' = [pc EXCEPT ![t] = "raw_unlock"]
    /\ UNCHANGED <<recVars, playVars, via, wbuf, rbuf, cerr, tmp, pre, calls,
                   testVars, rawLock>>

\* defer r.Lock.Unlock(), and the return to the caller of Write
RawUnlock(t) ==
    /\ pc[t] = "raw_unlock"
    /\ rawLock' = 0
    /\ pc' = [pc EXCEPT ![t] = IF via[t] = "RecordRaw.Tx" THEN "raw_tx_ret" ELSE "idle"]
    /\ UNCHANGED <<recVars, playVars, via, wbuf, rbuf, ret, cnt, cerr, tmp, pre,
                   calls, testVars, sinkLog>>

\* RecordRaw.Tx: _, err := r.Write(w); return err
RawTxRet(t) ==
    /\ pc[t] = "raw_tx_ret"
    /\ cnt' = [cnt EXCEPT ![t] = 0]
    /\ pc' = [pc EXCEPT ![t] = "idle"]
    /\ UNCHANGED <<recVars, playVars, via, wbuf, rbuf, ret, cerr, tmp, pre, calls,
                   testVars, rawVars>>

\* ------------------------------------------------------- the steps of a call
RawCheck       == \E t \in Threads : RawTxCheck(t)
RawLockStep    == \E t \in Threads : RawLock(t)
RawWriteStep   == \E t \in Threads : RawWrite(t)
RawUnlockStep  == \E t \in Threads : RawUnlock(t)
RawTxReturn    == \E t \in Threads : RawTxRet(t)

RecLock        == \E t \in Threads : RecTxLock(t)
RecCheck       == \E t \in Threads : RecTxCheck(t)
RecBuild       == \E t \in Threads : RecTxBuild(t)
RecStore       == \E t \in Threads : RecTxStore(t)
RecUnlock      == \E t \in Threads : RecTxUnlock(t)
RecWriteReturn == \E t \in Threads : RecWriteRet(t)

PlayLock        == \E t \in Threads : PlayTxLock(t)
PlayCheckStep   == \E t \in Threads : PlayTxCheck(t)
PlayCopy        == \E t \in Threads : PlayTxCopy(t)
PlayUnlock      == \E t \in Threads : PlayTxUnlock(t)
PlayWriteReturn == \E t \in Threads : PlayWriteRet(t)

InitThreads ==
    /\ pc = [t \in Threads |-> "idle"]
    /\ via = [t \in Threads |-> "none"]
    /\ wbuf = [t \in Threads |-> <<>>]
    /\ rbuf = [t \in Threads |-> <<>>]
    /\ ret = [t \in Threads |-> NoCall]
    /\ cnt = [t \in Threads |-> 0]
    /\ cerr = [t \in Threads |-> NoCall]
    /\ tmp = [t \in Threads |-> <<>>]
    /\ pre = [t \in Threads |-> NoSnapshot]
    /\ calls = 0


InitNoTest ==
    /\ script = <<>>
    /\ phase = "none"
    /\ seed = <<>>

\* RecordRaw{} untouched
InitNoRaw ==
    /\ rawLock = 0
    /\ sinkLog = <<>>

InitNoRecord ==
    /\ rConn = FALSE
    /\ rLock = 0
    /\ rOps = <<>>
    /\ connLog = <<>>

\* ------------------------------------------- one goroutine calls a Playback
RECURSIVE SeqsUpTo(_, _)
SeqsUpTo(S, n) ==
    IF n = 0 THEN {<<>>}
    ELSE LET shorter == SeqsUpTo(S, n - 1) IN
         shorter \cup {Append(q, x) : q \in {p \in shorter : Len(p) = n - 1}, x \in S}

\* A recorded response of n bytes: not the zero bytes of a fresh read buffer.
Resp(n) == [i \in 1..n |-> 1]

\* The transactions a Playback is constructed with.
IOSet == [Write : BufSet, Read : {Resp(n) : n \in 0..MaxLen}]

\* Playback{Ops: ops}, for every log of at most MaxOps transactions.
InitPlay ==
    /\ InitThreads
    /\ InitNoTest
    /\ InitNoRecord
    /\ InitNoRaw
    /\ pLock = 0
    /\ pOps \in SeqsUpTo(IOSet, MaxOps)

PlayCallTx ==
    /\ UNCHANGED calls
    /\ \E w \in BufSet, r \in ReadBufSet : PlayTxCall(Main, w, r)

PlayCallWrite ==
    /\ UNCHANGED calls
    /\ \E d \in BufSet : PlayWriteCall(Main, d)

NextPlay ==
    \/ PlayCallTx
    \/ PlayCallWrite
    \/ PlayLock
    \/ PlayCheckStep
    \/ PlayCopy
    \/ PlayUnlock
    \/ PlayWriteReturn

SpecPlay == InitPlay /\ [][NextPlay]_vars

\* ---------------------------------------------- one goroutine calls a Record
\* Record{} or Record{Conn: c}
InitRec ==
    /\ InitThreads
    /\ InitNoTest
    /\ InitNoRaw
    /\ rConn \in BOOLEAN
    /\ rLock = 0
    /\ rOps = <<>>
    /\ connLog = <<>>
    /\ pLock = 0
    /\ pOps = <<>>

RecCallTx ==
    /\ calls < MaxCalls
    /\ calls' = calls + 1
    /\ \E w \in BufSet, r \in ReadBufSet : RecTxCall(Main, w, r)

RecCallWrite ==
    /\ calls < MaxCalls
    /\ calls' = calls + 1
    /\ \E d \in BufSet : RecWriteCall(Main, d)

NextRec ==
    \/ RecCallTx
    \/ RecCallWrite
    \/ RecLock
    \/ RecCheck
    \/ RecBuild
    \/ RecStore
    \/ RecUnlock
    \/ RecWriteReturn

SpecRec == InitRec /\ [][NextRec]_vars

\* ------------------------------------ every goroutine calls one Record once
\* The payload of goroutine t: its own number, so that a record names its caller.
Tag(t) == <<t>>

ConcCallTx ==
    \E t \in Threads, r \in ReadBufSet :
        /\ via[t] = "none"
        /\ RecTxCall(t, Tag(t), r)
        /\ UNCHANGED calls

ConcCallWrite ==
    \E t \in Threads :
        /\ via[t] = "none"
        /\ RecWriteCall(t, Tag(t))
        /\ UNCHANGED calls

NextRecConc ==
    \/ ConcCallTx
    \/ ConcCallWrite
    \/ RecLock
    \/ RecCheck
    \/ RecBuild
    \/ RecStore
    \/ RecUnlock
    \/ RecWriteReturn

SpecRecConc == InitRec /\ [][NextRecConc]_vars

\* ------------------------------------------------------------ round trip
\* A test records T1..Tn through a Record{} (no underlying connection),
\* constructs Playback{Ops: r.Ops} and issues the same calls to it.
CallSet == [w : BufSet, r : ReadBufSet, write : BOOLEAN]
ScriptSet == SeqsUpTo({c \in CallSet : c.write => c.r = <<>>}, MaxCalls)

InitRT ==
    /\ InitThreads
    /\ rConn = FALSE
    /\ rLock = 0
    /\ rOps = <<>>
    /\ connLog = <<>>
    /\ pLock = 0
    /\ pOps = <<>>
    /\ script \in ScriptSet
    /\ phase = "record"
    /\ seed = <<>>
    /\ InitNoRaw

RTRecord ==
    /\ phase = "record"
    /\ calls < Len(script)
    /\ calls' = calls + 1
    /\ LET c == script[calls + 1] IN
       IF c.write THEN RecWriteCall(Main, c.w) ELSE RecTxCall(Main, c.w, c.r)

RTSeed ==
    /\ phase = "record"
    /\ calls = Len(script)
    /\ pc[Main] = "idle"
    /\ phase' = "play"
    /\ pOps' = LogVal(rOps)
    /\ UNCHANGED <<recVars, pLock, pc, via, wbuf, rbuf, ret, cnt, cerr, tmp, pre,
                   calls, script, seed, rawVars>>

RTPlay ==
    /\ phase = "play"
    /\ calls < 2 * Len(script)
    /\ calls' = calls + 1
    /\ LET c == script[calls - Len(script) + 1] IN
       IF c.write THEN PlayWriteCall(Main, c.w)
       ELSE PlayTxCall(Main, c.w, Make(Len(c.r)))

NextRT ==
    \/ RTRecord
    \/ RTSeed
    \/ RTPlay
    \/ RecLock
    \/ RecCheck
    \/ RecBuild
    \/ RecStore
    \/ RecUnlock
    \/ RecWriteReturn
    \/ PlayLock
    \/ PlayCheckStep
    \/ PlayCopy
    \/ PlayUnlock
    \/ PlayWriteReturn

SpecRT == InitRT /\ [][NextRT]_vars

\* ------------------------------------------- one goroutine calls a RecordRaw
\* RecordRaw{W: sink}
InitRaw ==
    /\ InitThreads
    /\ InitNoTest
    /\ InitNoRecord
    /\ InitNoRaw
    /\ pLock = 0
    /\ pOps = <<>>

RawCallTx ==
    /\ calls < MaxCalls
    /\ calls' = calls + 1
    /\ \E w \in BufSet, r \in ReadBufSet : RawTxCall(Main, w, r)

RawCallWrite ==
    /\ calls < MaxCalls
    /\ calls' = calls + 1
    /\ \E b \in BufSet : RawWriteCall(Main, b)

NextRaw ==
    \/ RawCallTx
    \/ RawCallWrite
    \/ RawCheck
    \/ RawLockStep
    \/ RawWriteStep
    \/ RawUnlockStep
    \/ RawTxReturn

SpecRaw == InitRaw /\ [][NextRaw]_vars

\* ------------------------- one goroutine calls a Record, or calls a Playback
\* The test drives one fake, named by phase: Record{} or Record{Conn: c}, or
\* a Playback constructed with a log.
InitSeq ==
    /\ InitThreads
    /\ InitNoRaw
    /\ script = <<>>
    /\ seed = <<>>
    /\ phase \in {"record", "play"}
    /\ rConn \in (IF phase = "record" THEN BOOLEAN ELSE {FALSE})
    /\ rLock = 0
    /\ rOps = <<>>
    /\ connLog = <<>>
    /\ pLock = 0
    /\ pOps \in (IF phase = "play" THEN SeqsUpTo(IOSet, MaxOps) ELSE {<<>>})

SeqRecCallTx    == phase = "record" /\ RecCallTx
SeqRecCallWrite == phase = "record" /\ RecCallWrite
\* The Playback is called once: its log at the call is any log.
SeqPlayCallTx ==
    /\ phase = "play"
    /\ calls = 0
    /\ calls' = calls + 1
    /\ \E w \in BufSet, r \in ReadBufSet : PlayTxCall(Main, w, r)
SeqPlayCallWrite ==
    /\ phase = "play"
    /\ calls = 0
    /\ calls' = calls + 1
    /\ \E d \in BufSet : PlayWriteCall(Main, d)

NextSeq ==
    \/ SeqRecCallTx
    \/ SeqRecCallWrite
    \/ RecLock
    \/ RecCheck
    \/ RecBuild
    \/ RecStore
    \/ RecUnlock
    \/ RecWriteReturn
    \/ SeqPlayCallTx
    \/ SeqPlayCallWrite
    \/ PlayLock
    \/ PlayCheckStep
    \/ PlayCopy
    \/ PlayUnlock
    \/ PlayWriteReturn

SpecSeq == InitSeq /\ [][NextSeq]_vars

\* ------------------------------------------- round trip, with a connection
\* A test records Tx calls T1..Tn through a Record{Conn: c}, constructs
\* Playback{Ops: r.Ops} and issues the same calls, with fresh read buffers.
InitRTConn ==
    /\ InitThreads
    /\ InitNoRaw
    /\ rConn = TRUE
    /\ rLock = 0
    /\ rOps = <<>>
    /\ connLog = <<>>
    /\ pLock = 0
    /\ pOps = <<>>
    /\ script \in SeqsUpTo({c \in CallSet : ~c.write}, MaxCalls)
    /\ phase = "record"
    /\ seed = <<>>

\* The test stops at the first call that fails.
RTConnRecord == ret[Main] \in {NoCall, Nil} /\ RTRecord
RTConnSeed   == ret[Main] \in {NoCall, Nil} /\ RTSeed
RTConnPlay   == ret[Main] \in {NoCall, Nil} /\ RTPlay

NextRTConn ==
    \/ RTConnRecord
    \/ RTConnSeed
    \/ RTConnPlay
    \/ RecLock
    \/ RecCheck
    \/ RecBuild
    \/ RecStore
    \/ RecUnlock
    \/ PlayLock
    \/ PlayCheckStep
    \/ PlayCopy
    \/ PlayUnlock

SpecRTConn == InitRTConn /\ [][NextRTConn]_vars

\* ---------------------------------- every goroutine calls one Playback once
\* Playback{Ops: seed}; a goroutine sends its own payload or another's, so that
\* goroutines compete for a record.
ConcIOSet == [Write : {Tag(u) : u \in Threads}, Read : {<<>>}]

InitPlayConc ==
    /\ InitThreads
    /\ InitNoRecord
    /\ InitNoRaw
    /\ script = <<>>
    /\ phase = "none"
    /\ seed \in SeqsUpTo(ConcIOSet, MaxOps)
    /\ pLock = 0
    /\ pOps = seed

ConcPlayCallTx ==
    \E t \in Threads, u \in Threads :
        /\ via[t] = "none"
        /\ PlayTxCall(t, Tag(u), <<>>)
        /\ UNCHANGED calls

ConcPlayCallWrite ==
    \E t \in Threads, u \in Threads :
        /\ via[t] = "none"
        /\ PlayWriteCall(t, Tag(u))
        /\ UNCHANGED calls

NextPlayConc ==
    \/ ConcPlayCallTx
    \/ ConcPlayCallWrite
    \/ PlayLock
    \/ PlayCheckStep
    \/ PlayCopy
    \/ PlayUnlock
    \/ PlayWriteReturn

SpecPlayConc == InitPlayConc /\ [][NextPlayConc]_vars

\* ------------------------------------- every goroutine calls one fake once
\* The test drives one fake, named by phase, from every goroutine: a Record
\* with or without a connection, a Playback constructed with a log, or a
\* RecordRaw.
InitAll ==
    /\ InitThreads
    /\ InitNoRaw
    /\ script = <<>>
    /\ phase \in {"record", "play", "raw"}
    /\ rConn \in (IF phase = "record" THEN BOOLEAN ELSE {FALSE})
    /\ rLock = 0
    /\ rOps = <<>>
    /\ connLog = <<>>
    /\ seed \in (IF phase = "play" THEN SeqsUpTo(ConcIOSet, MaxOps) ELSE {<<>>})
    /\ pLock = 0
    /\ pOps = seed

AllRecCallTx    == phase = "record" /\ ConcCallTx
AllRecCallWrite == phase = "record" /\ ConcCallWrite

AllPlayCallTx ==
    \E t \in Threads :
        /\ phase = "play"
        /\ via[t] = "none"
        /\ PlayTxCall(t, Tag(t), <<>>)
        /\ UNCHANGED calls

AllPlayCallWrite ==
    \E t \in Threads :
        /\ phase = "play"
        /\ via[t] = "none"
        /\ PlayWriteCall(t, Tag(t))
        /\ UNCHANGED calls

AllRawCallTx ==
    \E t \in Threads, r \in ReadBufSet :
        /\ phase = "raw"
        /\ via[t] = "none"
        /\ RawTxCall(t, Tag(t), r)
        /\ UNCHANGED calls

AllRawCallWrite ==
    \E t \in Threads :
        /\ phase = "raw"
        /\ via[t] = "none"
        /\ RawWriteCall(t, Tag(t))
        /\ UNCHANGED calls

NextAll ==
    \/ AllRecCallTx
    \/ AllRecCallWrite
    \/ AllPlayCallTx
    \/ AllPlayCallWrite
    \/ AllRawCallTx
    \/ AllRawCallWrite
    \/ RecLock
    \/ RecCheck
    \/ RecBuild
    \/ RecStore
    \/ RecUnlock
    \/ RecWriteReturn
    \/ PlayLock
    \/ PlayCheckStep
    \/ PlayCopy
    \/ PlayUnlock
    \/ PlayWriteReturn
    \/ RawCheck
    \/ RawLockStep
    \/ RawWriteStep
    \/ RawUnlockStep
    \/ RawTxReturn

SpecAll == InitAll /\ [][NextAll]_vars

\* Goroutine t takes the lock it waits for.
Acquire(t) == RecTxLock(t) \/ PlayTxLock(t) \/ RawLock(t)
\* Goroutine t runs the next statement of its call.
Run(t) ==
    \/ RecTxCheck(t) \/ RecTxBuild(t) \/ RecTxStore(t) \/ RecTxUnlock(t) \/ RecWriteRet(t)
    \/ PlayTxCheck(t) \/ PlayTxCopy(t) \/ PlayTxUnlock(t) \/ PlayWriteRet(t)
    \/ RawTxCheck(t) \/ RawWrite(t) \/ RawUnlock(t) \/ RawTxRet(t)
\* A goroutine that can run does run, and a goroutine that waits for a lock
\* that stays free gets it; the connection and the sink return.
Fairness == \A t \in Threads : WF_vars(Run(t) \/ Acquire(t))

SpecLive == InitAll /\ [][NextAll]_vars /\ Fairness

\* ================================================================= claims
\* A call of Playback.Tx by t has made its checks.
PlayChecked(t) == pc[t] \in {"ptx_copy", "ptx_unlock"}
\* What the checks decided.
PlayOutcome(t) == IF pc[t] = "ptx_copy" THEN Nil ELSE ret[t]
\* A call by t has returned from Tx, or is about to (the lock is still held
\* at "..._unlock"); with one calling goroutine the log is still the one the
\* call left.
PlayReturned(t) ==
    \/ pc[t] \in {"ptx_unlock", "pw_ret"}
    \/ pc[t] = "idle" /\ via[t] \in {"Playback.Tx", "Playback.Write"}
RecReturned(t) ==
    \/ pc[t] \in {"rtx_unlock", "rw_ret"}
    \/ pc[t] = "idle" /\ via[t] \in {"Record.Tx", "Record.Write"}

\* C1: on a Playback whose log starts with (W, R), Tx(w, r) with w = W and
\* len(r) = len(R) returns nil, leaves R in the caller's r and removes exactly
\* the head record, the rest of the log unchanged and in order.
C1_MatchingTxConsumesHead ==
    \A t \in Threads :
        ( /\ pc[t] = "ptx_unlock"
          /\ pre[t].ops # <<>>
          /\ wbuf[t] = pre[t].ops[1].Write
          /\ Len(pre[t].r) = Len(pre[t].ops[1].Read) )
        => /\ ret[t] = Nil
           /\ rbuf[t] = pre[t].ops[1].Read
           /\ pOps = Tail(pre[t].ops)
           /\ Len(pOps) = Len(pre[t].ops) - 1

\* A matching Tx on a log of two different records has copied a non-empty response.
C1_Witness ==
    \E t \in Threads :
        /\ pc[t] = "ptx_unlock"
        /\ ret[t] = Nil
        /\ Len(pre[t].ops) = 2
        /\ pre[t].ops[1] # pre[t].ops[2]
        /\ wbuf[t] = pre[t].ops[1].Write
        /\ rbuf[t] # pre[t].r
        /\ Len(pOps) = 1

\* A call that found the log empty returns the "unexpected Tx()" error.
C2_ExhaustedErrs ==
    \A t \in Threads :
        pre[t].ops = <<>> =>
            /\ pc[t] # "ptx_copy"
            /\ PlayReturned(t) => ret[t] = ErrUnexpectedTx
            /\ (pc[t] = "idle" /\ via[t] = "Playback.Write") => cnt[t] = 0
\* No step refills an empty log.
C2_ExhaustedStays == (pOps = <<>>) => (pOps' = <<>>)

\* C2: once the log of a Playback is empty, every Tx or Write returns the
\* "unexpected Tx()" error (Write with count 0) and the log stays empty for
\* ever: no operation of the Playback leaves the exhausted state.
C2_ExhaustedIsTerminal == []C2_ExhaustedErrs /\ [][C2_ExhaustedStays]_vars

\* A Write with a non-empty buffer has returned from an exhausted Playback.
C2_Witness ==
    \E t \in Threads :
        /\ pc[t] = "idle"
        /\ via[t] = "Playback.Write"
        /\ pre[t].ops = <<>>
        /\ pOps = <<>>
        /\ wbuf[t] # <<>>
        /\ ret[t] = ErrUnexpectedTx

\* C3: a Tx or Write of a Playback that returns an error leaves the log and
\* the caller's read buffer as they were before the call.
C3_FailedTxChangesNothing ==
    \A t \in Threads :
        (pc[t] = "ptx_unlock" /\ ret[t] # Nil)
        => /\ pOps = pre[t].ops
           /\ rbuf[t] = pre[t].r

\* A Tx failed on a write mismatch against a log of two records, with a read
\* buffer the head's response would have fitted.
C3_Witness ==
    \E t \in Threads :
        /\ pc[t] = "ptx_unlock"
        /\ ret[t] = ErrWrite
        /\ Len(pOps) = 2
        /\ Len(rbuf[t]) = Len(pOps[1].Read)
        /\ rbuf[t] # pOps[1].Read

\* C4: the checks of Playback.Tx come in the order exhaustion, write mismatch,
\* read-length mismatch: on a non-empty log with head (W, R), the write error
\* whenever w # W, the read-length error exactly when w = W and
\* len(r) # len(R), and success only when none fires.
C4_CheckOrder ==
    \A t \in Threads :
        PlayChecked(t) =>
            LET ops == pre[t].ops
                w == wbuf[t]
                r == pre[t].r
                e == PlayOutcome(t)
            IN  IF ops = <<>>
                THEN e = ErrUnexpectedTx
                ELSE /\ (e = ErrWrite) <=> (w # ops[1].Write)
                     /\ (e = ErrReadLen) <=>
                            (w = ops[1].Write /\ Len(r) # Len(ops[1].Read))
                     /\ (e = Nil) <=>
                            (w = ops[1].Write /\ Len(r) = Len(ops[1].Read))
                     /\ e \in {ErrWrite, ErrReadLen, Nil}

\* Both mismatches at once: the write mismatch is the one reported.
C4_Witness ==
    \E t \in Threads :
        /\ pc[t] = "ptx_unlock"
        /\ pre[t].ops # <<>>
        /\ wbuf[t] # pre[t].ops[1].Write
        /\ Len(pre[t].r) # Len(pre[t].ops[1].Read)
        /\ ret[t] = ErrWrite

\* Every transaction of the script has an empty read.
RTAllReadsEmpty == \A i \in 1..Len(script) : script[i].r = <<>>
\* The script as a log.
RTExpected == [i \in 1..Len(script) |-> [Write |-> script[i].w, Read |-> <<>>]]

\* C5: transactions T1..Tn with empty reads, issued to a fresh Record without
\* an underlying connection, all succeed and leave the log T1..Tn; a fresh
\* Playback constructed with that log, given the same calls in order, returns
\* no error, returns the recorded (empty) reads and ends with an empty log.
C5_RoundTrip ==
    RTAllReadsEmpty =>
        LET n == Len(script)
            m == Main
        IN  /\ ret[m] \in {NoCall, Nil}
            /\ pc[m] = "idle" =>
                 /\ calls > 0 => ret[m] = Nil
                 /\ (calls > 0 /\ via[m] \in {"Record.Write", "Playback.Write"})
                        => cnt[m] = Len(wbuf[m])
                 /\ phase = "record" => LogVal(rOps) = SubSeq(RTExpected, 1, calls)
                 /\ phase = "play" =>
                        /\ pOps = SubSeq(RTExpected, calls - n + 1, n)
                        /\ rbuf[m] = <<>>
            /\ phase = "play" => LogVal(rOps) = RTExpected
            /\ (phase = "play" /\ pc[m] = "idle" /\ calls = 2 * n) => pOps = <<>>

\* Two different transactions recorded and both played back.
C5_Witness ==
    /\ RTAllReadsEmpty
    /\ Len(script) = 2
    /\ script[1].w # script[2].w
    /\ script[1].w # <<>>
    /\ phase = "play"
    /\ calls = 4
    /\ pc[Main] = "idle"
    /\ pOps = <<>>

\* C6: when the underlying connection's Tx fails, Record.Tx returns that error
\* unchanged and the log is as before the call; Record.Write returns (0, err).
C6_FailedDelegationNotRecorded ==
    \A t \in Threads :
        (rConn /\ cerr[t] \in ConnErrs) =>
            /\ pc[t] \notin {"rtx_build", "rtx_store"}
            /\ RecReturned(t) =>
                 /\ ret[t] = cerr[t]
                 /\ LogVal(rOps) = pre[t].ops
            /\ (pc[t] = "idle" /\ via[t] = "Record.Write") => cnt[t] = 0

\* A Write failed in the delegation after an earlier call was recorded.
C6_Witness ==
    \E t \in Threads :
        /\ rConn
        /\ pc[t] = "idle"
        /\ via[t] = "Record.Write"
        /\ cerr[t] \in ConnErrs
        /\ ret[t] = cerr[t]
        /\ wbuf[t] # <<>>
        /\ Len(rOps) = 1

\* C7: without an underlying connection, Record.Tx(w, r) with a non-empty r
\* fails with the read-unsupported error and leaves the log unchanged, for
\* every w; with an empty r it succeeds and appends one record.
C7_NoConnRead ==
    \A t \in Threads :
        (~rConn /\ RecReturned(t)) =>
            IF Len(pre[t].r) # 0
            THEN /\ ret[t] = ErrNoBus
                 /\ LogVal(rOps) = pre[t].ops
            ELSE /\ ret[t] = Nil
                 /\ Len(rOps) = Len(pre[t].ops) + 1
                 /\ SubSeq(LogVal(rOps), 1, Len(pre[t].ops)) = pre[t].ops

\* A read was refused after an earlier write was recorded.
C7_Witness ==
    \E t \in Threads :
        /\ ~rConn
        /\ pc[t] = "idle"
        /\ ret[t] = ErrNoBus
        /\ wbuf[t] # <<>>
        /\ Len(rOps) = 1

IsPrefix(a, b) == Len(a) <= Len(b) /\ SubSeq(b, 1, Len(a)) = a
IsSuffix(a, b) == Len(a) <= Len(b) /\ SubSeq(b, Len(b) - Len(a) + 1, Len(b)) = a
\* One step of the logs; the Playback exists once the test has constructed it.
C8_LogStep ==
    /\ IsPrefix(LogVal(rOps), LogValNext(rOps'))
    /\ phase = "play" => IsSuffix(pOps', pOps)

\* C8: the log of a Record only grows by appending (an earlier log is a prefix
\* of every later one, the appended records never change), the log of a
\* Playback only shrinks by losing its head (a later log is a suffix of every
\* earlier one).
C8_LogsMonotonic == [][C8_LogStep]_vars

\* Two different transactions were recorded and the first has been played back.
C8_Witness ==
    /\ phase = "play"
    /\ Len(rOps) = 2
    /\ LogVal(rOps)[1] # LogVal(rOps)[2]
    /\ pOps = <<LogVal(rOps)[2]>>

\* A successful Tx has appended one record, of the bytes of w and r.
C9_Appended ==
    \A t \in Threads :
        (pc[t] = "rtx_unlock" /\ ret[t] = Nil) =>
            LogVal(rOps) = Append(pre[t].ops, [Write |-> wbuf[t], Read |-> rbuf[t]])
\* No step, a caller's reuse of its buffers included, changes the bytes of a
\* record already in the log.
C9_RecordsKeep == \A i \in 1..Len(rOps) : LogValNext(rOps)[i] = LogVal(rOps)[i]

\* C9: a successful Record.Tx(w, r) appends exactly one record holding copies
\* of w and r as they were at the call: no later change of the caller's
\* buffers changes a record of the log, also when a buffer is reused for a
\* later call.
C9_RecordsAreCopies == []C9_Appended /\ [][C9_RecordsKeep]_vars

\* The caller has reused its buffers for a second transaction of other bytes.
C9_Witness ==
    /\ Len(rOps) = 2
    /\ pc[Main] = "idle"
    /\ LogVal(rOps)[1].Write # <<>>
    /\ LogVal(rOps)[1].Read # <<>>
    /\ LogVal(rOps)[1].Write # wbuf[Main]
    /\ LogVal(rOps)[1].Read # rbuf[Main]
    /\ LogVal(rOps)[2] = [Write |-> wbuf[Main], Read |-> rbuf[Main]]

\* The goroutines whose call has stored its record.
RecSucceeded == {t \in Threads : ret[t] = Nil}

\* C10: when N goroutines each make one successful call on the same Record,
\* the log has exactly N records, one per caller and holding that caller's
\* write and read bytes, in every interleaving.
C10_OneRecordPerCaller ==
    /\ Len(rOps) = Cardinality(RecSucceeded)
    /\ \A t \in RecSucceeded :
          LET mine == {i \in 1..Len(rOps) : LogVal(rOps)[i].Write = Tag(t)}
          IN  /\ Cardinality(mine) = 1
              /\ \A i \in mine : LogVal(rOps)[i].Read = rbuf[t]

\* Every goroutine has returned successfully, one of them with a response read.
C10_Witness ==
    /\ \A t \in Threads : pc[t] = "idle" /\ ret[t] = Nil
    /\ Len(rOps) = NThreads
    /\ \E t \in Threads : rbuf[t] # <<>> /\ rbuf[t] # Make(Len(rbuf[t]))

\* A call of RecordRaw.Write by t, made directly or by Tx, has had the sink's
\* answer.
RawWritten(t) ==
    \/ pc[t] \in {"raw_unlock", "raw_tx_ret"}
    \/ /\ pc[t] = "idle"
       /\ \/ via[t] = "RecordRaw.Write"
          \/ via[t] = "RecordRaw.Tx" /\ Len(rbuf[t]) = 0

\* C12: RecordRaw.Tx(w, r) with a non-empty r never reaches the lock or the
\* sink, and returns "not implemented" with the sink as it was at the call.
C12_RawReadUnsupported ==
    \A t \in Threads :
        (via[t] = "RecordRaw.Tx" /\ Len(rbuf[t]) # 0) =>
            /\ pc[t] \in {"raw_tx", "idle"}
            /\ pc[t] = "idle" => (ret[t] = ErrNotImpl /\ sinkLog = pre[t].ops)

\* A Tx with a read buffer has failed on a sink that holds earlier writes.
C12_Witness ==
    /\ via[Main] = "RecordRaw.Tx"
    /\ pc[Main] = "idle"
    /\ Len(rbuf[Main]) # 0
    /\ ret[Main] = ErrNotImpl
    /\ sinkLog # <<>>

\* C13: RecordRaw.Write(w) hands exactly w to the sink, once, and returns the
\* count and the error the sink answered, (len(w), nil) when the sink took all
\* of w; Tx(w, r) with an empty r does the same to the sink and returns the
\* sink's error alone.
C13_RawForwards ==
    \A t \in Threads :
        RawWritten(t) =>
            /\ Len(sinkLog) = Len(pre[t].ops) + 1
            /\ SubSeq(sinkLog, 1, Len(pre[t].ops)) = pre[t].ops
            /\ LET got == sinkLog[Len(sinkLog)]
               IN  /\ got.b = wbuf[t]
                   /\ ret[t] = got.err
                   /\ via[t] = "RecordRaw.Write" => cnt[t] = got.n
                   /\ (via[t] = "RecordRaw.Write" /\ got.err = Nil /\ got.n = Len(wbuf[t]))
                          => (cnt[t] = Len(wbuf[t]) /\ ret[t] = Nil)

\* A Write has returned the short count and the error of a failing sink, after
\* a Tx without a read buffer had its bytes accepted.
C13_Witness ==
    /\ via[Main] = "RecordRaw.Write"
    /\ pc[Main] = "idle"
    /\ Len(sinkLog) = 2
    /\ sinkLog[1].err = Nil
    /\ sinkLog[2].err \in SinkErrs
    /\ cnt[Main] < Len(wbuf[Main])
    /\ ret[Main] = sinkLog[2].err

\* What Record.Tx(d, empty) does to the log pre it found, given the answer e of
\* the underlying connection, if there is one: the error and the log it leaves.
C14_RecTxEmpty(ops, d, e) ==
    IF rConn /\ e # Nil
    THEN [err |-> e, log |-> ops]
    ELSE [err |-> Nil, log |-> Append(ops, [Write |-> d, Read |-> <<>>])]
\* What Playback.Tx(d, empty) does to the log it found.
C14_PlayTxEmpty(ops, d) ==
    IF ops = <<>> THEN [err |-> ErrUnexpectedTx, log |-> ops]
    ELSE IF ops[1].Write # d THEN [err |-> ErrWrite, log |-> ops]
    ELSE IF Len(ops[1].Read) # 0 THEN [err |-> ErrReadLen, log |-> ops]
    ELSE [err |-> Nil, log |-> SubSeq(ops, 2, Len(ops))]
\* The count Write returns next to err.
C14_Count(t) == IF ret[t] = Nil THEN Len(wbuf[t]) ELSE 0

\* C14: on a Record and on a Playback, Write(d) and Tx(d, empty) return the same
\* error and leave the same log, for every log and every d; Write returns
\* len(d) next to nil and 0 next to an error.
C14_WriteIsTxEmpty ==
    \A t \in Threads :
        /\ (RecReturned(t) /\ Len(pre[t].r) = 0) =>
              LET x == C14_RecTxEmpty(pre[t].ops, wbuf[t], cerr[t])
              IN  ret[t] = x.err /\ LogVal(rOps) = x.log
        /\ (PlayReturned(t) /\ Len(pre[t].r) = 0) =>
              LET x == C14_PlayTxEmpty(pre[t].ops, wbuf[t])
              IN  ret[t] = x.err /\ pOps = x.log
        /\ (pc[t] = "idle" /\ via[t] \in {"Record.Write", "Playback.Write"}) =>
              /\ Len(pre[t].r) = 0
              /\ cnt[t] = C14_Count(t)

\* A Write on a Record has returned (0, err) with the error of the underlying
\* connection, after an earlier call was recorded.
C14_Witness ==
    /\ phase = "record"
    /\ via[Main] = "Record.Write"
    /\ pc[Main] = "idle"
    /\ ret[Main] \in ConnErrs
    /\ cnt[Main] = 0
    /\ wbuf[Main] # <<>>
    /\ Len(rOps) = 1


\* C15: a Record with an underlying connection hands each Tx(w, r) to the
\* connection once, with the caller's w and a read of r's length, before it
\* builds the record; the record of a successful call holds w and the bytes
\* the connection answered, so the log is the connection's transactions; a
\* fresh Playback with that log, given the same calls with fresh read buffers,
\* returns nil and the connection's answers, in order.
C15_RecordsResponse ==
    LET m == Main
        n == Len(script)
    IN  /\ pc[m] \in {"rtx_build", "rtx_store"} =>
              /\ connLog = Append(LogVal(rOps), [Write |-> wbuf[m], Read |-> rbuf[m]])
              /\ LogVal(rOps) = pre[m].ops
              /\ wbuf[m] = script[calls].w
              /\ Len(rbuf[m]) = Len(script[calls].r)
        /\ pc[m] \notin {"rtx_build", "rtx_store"} => LogVal(rOps) = connLog
        /\ (pc[m] = "idle" /\ ret[m] = Nil) => Len(connLog) = IF phase = "record" THEN calls ELSE n
        /\ phase = "play" =>
              /\ Len(connLog) = n
              /\ \A i \in 1..n : connLog[i].Write = script[i].w
              /\ (pc[m] = "idle" /\ calls > n) =>
                    /\ ret[m] = Nil
                    /\ rbuf[m] = connLog[calls - n].Read
                    /\ pOps = SubSeq(connLog, calls - n + 1, n)

\* Two transactions with different answers were recorded and played back, the
\* second just now; its answer is not the zeroes its read buffer held.
C15_Witness ==
    /\ phase = "play"
    /\ Len(script) = 2
    /\ calls = 4
    /\ pc[Main] = "idle"
    /\ connLog[1].Read # connLog[2].Read
    /\ connLog[2].Read # Make(Len(connLog[2].Read))
    /\ rbuf[Main] = connLog[2].Read
    /\ pOps = <<>>

\* The goroutines between r.Conn.Tx and the append of their record.
C16_InFlight == {t \in Threads : pc[t] \in {"rtx_build", "rtx_store"}}

\* C16: with several goroutines calling one Record that wraps a connection,
\* at most one call is between its delegation and its append, and it holds the
\* lock; the log is the sequence of transactions the connection executed, in
\* the connection's order, less the one of the call in flight.
C16_LogInConnOrder ==
    rConn =>
        /\ Cardinality(C16_InFlight) <= 1
        /\ C16_InFlight = {} => LogVal(rOps) = connLog
        /\ \A t \in C16_InFlight :
              /\ rLock = t
              /\ connLog = Append(LogVal(rOps), [Write |-> wbuf[t], Read |-> rbuf[t]])

\* Every goroutine's transaction was executed and recorded, the last goroutine's
\* first and the first goroutine's last.
C16_Witness ==
    /\ rConn
    /\ \A t \in Threads : pc[t] = "idle" /\ ret[t] = Nil
    /\ Len(connLog) = NThreads
    /\ connLog[1].Write = Tag(NThreads)
    /\ LogVal(rOps)[1].Write = Tag(NThreads)
    /\ LogVal(rOps)[NThreads].Write = Tag(Main)

\* C17: every successful call on a Record makes the log one record longer; on
\* a Record without an underlying connection, Tx(w, r) with an empty w and an
\* empty r succeeds and appends a record with an empty Write and an empty Read.
C17_EmptyTxRecorded ==
    \A t \in Threads :
        RecReturned(t) =>
            /\ ret[t] = Nil => Len(rOps) = Len(pre[t].ops) + 1
            /\ (~rConn /\ Len(wbuf[t]) = 0 /\ Len(pre[t].r) = 0) =>
                  /\ ret[t] = Nil
                  /\ LogVal(rOps) = Append(pre[t].ops, [Write |-> <<>>, Read |-> <<>>])

\* A second transaction without bytes has been recorded after a first.
C17_Witness ==
    /\ ~rConn
    /\ via[Main] = "Record.Tx"
    /\ pc[Main] = "idle"
    /\ ret[Main] = Nil
    /\ wbuf[Main] = <<>>
    /\ rbuf[Main] = <<>>
    /\ LogVal(rOps) = <<[Write |-> <<>>, Read |-> <<>>], [Write |-> <<>>, Read |-> <<>>]>>

\* The goroutines whose call on the Playback succeeded.
C18_Succeeded == {t \in Threads : ret[t] = Nil}
\* The place in the seeded log of the record that was the head when t took the
\* lock.
C18_HeadAt(t) == Len(seed) - Len(pre[t].ops) + 1

\* C18: on a Playback constructed with the log L and called by several
\* goroutines, in every state the calls that succeeded and the records left
\* add up to len(L); a successful call found a suffix of L whose head holds
\* the bytes it was called with; no two successful calls found the same head;
\* the heads found are L[1..k] for k successes, so that in the order of the
\* lock the k-th success matched L[k]; a call about to consume still holds
\* the lock and finds the head it matched.
C18_EachRecordOnce ==
    /\ Cardinality(C18_Succeeded) + Len(pOps) = Len(seed)
    /\ IsSuffix(pOps, seed)
    /\ \A t \in C18_Succeeded :
          /\ pre[t].ops # <<>>
          /\ IsSuffix(pre[t].ops, seed)
          /\ seed[C18_HeadAt(t)].Write = wbuf[t]
          /\ seed[C18_HeadAt(t)].Read = rbuf[t]
    /\ \A t, u \in C18_Succeeded : t # u => C18_HeadAt(t) # C18_HeadAt(u)
    /\ {C18_HeadAt(t) : t \in C18_Succeeded} = 1..Cardinality(C18_Succeeded)
    /\ \A t \in Threads : pc[t] = "ptx_copy" => (pLock = t /\ pre[t].ops = pOps)

\* Every goroutine has sent the same bytes, one of them through Write, to a
\* Playback whose records all hold these bytes; all have succeeded, the last
\* goroutine on the first record.
C18_Witness ==
    /\ Len(seed) = NThreads
    /\ \A i \in 1..Len(seed) : seed[i].Write = Tag(Main)
    /\ \A t \in Threads : pc[t] = "idle" /\ ret[t] = Nil /\ wbuf[t] = Tag(Main)
    /\ \E t \in Threads : via[t] = "Playback.Write"
    /\ C18_HeadAt(NThreads) = 1
    /\ pOps = <<>>

\* The lock of the instance that goroutine t called.
C11_LockOf(t) ==
    IF via[t] \in {"Record.Tx", "Record.Write"} THEN rLock
    ELSE IF via[t] \in {"Playback.Tx", "Playback.Write"} THEN pLock
    ELSE rawLock
\* Where a goroutine is between Lock() and the deferred Unlock().
C11_Critical == {"rtx_check", "rtx_build", "rtx_store", "rtx_unlock",
                 "ptx_check", "ptx_copy", "ptx_unlock",
                 "raw_write", "raw_unlock"}
\* Where a goroutine waits in Lock().
C11_Waiting == {"rtx_lock", "ptx_lock", "raw_lock"}

\* C11, as stated: every Write and Tx of RecordRaw, Record and Playback holds
\* its instance's lock for its entire duration, that is from the moment it
\* has the lock to its return.
C11_LockHeldThroughout ==
    \A t \in Threads :
        (pc[t] # "idle" /\ pc[t] \notin C11_Waiting) => C11_LockOf(t) = t

\* C11: Record.Tx, Playback.Tx and RecordRaw.Write hold their instance's lock
\* from Lock() to their return, on every exit path, and no goroutine holds a
\* lock anywhere else: not in Record.Write or Playback.Write after their Tx
\* returned, not in RecordRaw.Tx before or after its Write. At most one call is
\* in an instance's critical section, and a lock is free whenever no call is in
\* progress.
C11_LockDiscipline ==
    /\ \A t \in Threads :
          /\ pc[t] \in C11_Critical => C11_LockOf(t) = t
          /\ pc[t] \notin C11_Critical => (rLock # t /\ pLock # t /\ rawLock # t)
    /\ Cardinality({t \in Threads : pc[t] \in C11_Critical}) <= 1
    /\ (\A t \in Threads : pc[t] = "idle") => (rLock = 0 /\ pLock = 0 /\ rawLock = 0)

\* A call that failed is about to release the lock another goroutine waits for.
C11_Witness ==
    /\ phase = "record"
    /\ pc[Main] = "rtx_unlock"
    /\ ret[Main] \in ConnErrs
    /\ rLock = Main
    /\ \E t \in Threads : pc[t] = "rtx_lock"

\* A goroutine that waits in Lock() does not hold a lock: Record.Write and
\* Playback.Write call Tx, and RecordRaw.Tx calls Write, without it.
C19_CallsOutsideLock ==
    \A t \in Threads :
        pc[t] \in {"rtx_lock", "ptx_lock", "raw_lock"} =>
            (rLock # t /\ pLock # t /\ rawLock # t)
\* Every call returns.
C19_Returns == \A t \in Threads : (pc[t] # "idle") ~> (pc[t] = "idle")

\* C19: no Write or Tx of RecordRaw, Record or Playback waits for a lock its
\* own goroutine holds, and under fair scheduling, with a sink and a
\* connection that return, every call of every goroutine returns.
C19_NoSelfDeadlock == []C19_CallsOutsideLock /\ C19_Returns

\* Every goroutine has returned from its call on a Record, the first goroutine
\* from a Write that was recorded last.
C19_Witness ==
    /\ phase = "record"
    /\ \A t \in Threads : pc[t] = "idle" /\ ret[t] # NoCall
    /\ via[Main] = "Record.Write"
    /\ Len(rOps) = NThreads
    /\ LogVal(rOps)[NThreads].Write = Tag(Main)

====
